---- MODULE Spec2Model ----
(***************************************************************************)
(* A model of agent-notes: the markdown chunker, the BM25 scorer, the      *)
(* memory search (keyword and semantic, with its embedding cache file) and *)
(* the conversation search (transcript parsers and ranking).               *)
(*                                                                         *)
(* Text is a sequence of one-character strings.  Scores are fixed-point    *)
(* integers (SCALE units per 1.0) standing for the doubles of the code.    *)
(***************************************************************************)
EXTENDS Integers, Sequences, FiniteSets, TLC

VARIABLES
  \* chunkMarkdown applied to one input
  content, maxChars, minChars, chunks, chunkPc,
  \* one run of memory search: its inputs, the cache file, its output
  mChunks,      \* the chunk texts, in discovery order (file order, then idx)
  mQuery,       \* the query text
  mK,           \* --k
  mSemantic,    \* --semantic
  mCfg,         \* provider, model and dimensions of the embeddings
  cacheFile,    \* the embeddings cache files: cachePath -> (cache key -> entry)
  mPc,          \* "input", "done"
  mBm25,        \* c.bm25 of every chunk
  mCosine,      \* c.cosine of every chunk
  mCandidates,  \* the candidate union, in Map order
  mCombined,    \* c.combined of every candidate
  mRanked,      \* the sorted list: keywordSorted, or the sorted candidates
  mShown,       \* the lines printed: chunk and the score shown
  \* one run of conversation search
  cFiles,       \* sessionFiles: sessionId, source and the lines of the file
  cQuery,       \* the query text
  cK,           \* --k
  cSince,       \* --since, 0 when absent
  cPc,          \* "input", "done"; "listed" or "failed" after --sessions
  cDocs,        \* docs, in the order pushed
  cOwnTokens,   \* tokenize(doc.text) of every document
  cTokensById,  \* docTokensById.get(doc.id) of every document
  cScore,       \* doc.score of every document
  cRanked,      \* docs after the sort
  cShown,       \* the results printed
  cListed,      \* the sessions printed by --sessions
  \* one session file being parsed
  pSource,      \* "claude" or "codex"
  pLines,       \* the lines of the file
  pSince,       \* sinceDate, 0 when absent
  pState,       \* the generator: locals, messages yielded, lines read, status
  \* the invocations of semantic memory search, request by request (mPc is
  \* then "input", "awaitBatch", "awaitQuery", "done", "failed", "interrupted")
  sApiKey,      \* process.env.OPENAI_API_KEY is set
  sReindex,     \* --reindex
  sCache,       \* cache, the object in memory
  sMissing,     \* missing
  sNext,        \* i, the offset in missing of the batch in flight
  sRequests,    \* the requests sent to the provider by this invocation
  sWrites,      \* the writes of the cache file by this invocation
  sNotice,      \* the notice that content is sent to the provider is printed
  sFetched,     \* getEmbeddingsForChunks has returned in this invocation
  sRun,         \* the number of this invocation
  sPrev,        \* the invocation before: its chunks, cfg, sFetched, end and ranking
  sFileAtStart, \* the cache files as this invocation found them
  \* a pure function applied to one input
  pureIn,       \* the input
  pureOut,      \* what the function returned
  purePc,       \* "idle", "input", "done"
  \* invocations of semantic memory search running at the same time, each a
  \* process of its own, on one cache file
  rFile,        \* the cache file: whether it exists, and its text
  rInv,         \* every invocation: its position, its inputs, its cache object
  rWriters      \* the invocations in the order their writes of the file ended

chunkVars == <<content, maxChars, minChars, chunks, chunkPc>>
memVars == <<mChunks, mQuery, mK, mSemantic, mCfg, cacheFile, mPc, mBm25, mCosine,
            mCandidates, mCombined, mRanked, mShown>>
convVars == <<cFiles, cQuery, cK, cSince, cPc, cDocs, cOwnTokens, cTokensById, cScore,
             cRanked, cShown, cListed>>
parseVars == <<pSource, pLines, pSince, pState>>
semVars == <<sApiKey, sReindex, sCache, sMissing, sNext, sRequests, sWrites, sNotice,
            sFetched, sRun, sPrev, sFileAtStart>>
pureVars == <<pureIn, pureOut, purePc>>
raceVars == <<rFile, rInv, rWriters>>
vars == <<chunkVars, memVars, convVars, parseVars, semVars, pureVars, raceVars>>

(***************************************************************************)
(* Bounds of the model.                                                    *)
(***************************************************************************)
MaxContentLen == 6      \* longest markdown input given to chunkMarkdown
MaxChunkChars == 3      \* largest maxChars tried
MaxMinChars == 2        \* largest minChars tried
MaxDocs == 3            \* most chunks (or messages) in a corpus
MaxK == 2               \* largest --k tried
MaxLines == 3           \* most lines of a session file parsed line by line
MaxRuns == 3            \* most invocations of the semantic search in a row
ExtraChunks == 1        \* chunks beyond one full batch in the large corpus
MaxTextLen == 4         \* longest text given to tokenize
MaxInvocations == 2     \* most invocations running at the same time

(***************************************************************************)
(* Characters and strings.                                                 *)
(***************************************************************************)
NL == "\n"
SP == " "
TICK == "tick"     \* the backtick character
Alphabet == {"a", SP, NL, TICK}

\* What String.prototype.trim() removes.
IsWhite(c) == c \in {SP, NL, "\t", "\r"}

RECURSIVE SeqsUpTo(_, _)
SeqsUpTo(S, n) ==
  IF n = 0 THEN {<<>>}
  ELSE LET shorter == SeqsUpTo(S, n - 1)
       IN  shorter \cup {Append(s, c) : s \in {t \in shorter : Len(t) = n - 1}, c \in S}

Slice(s, from, to) ==   \* s.slice(from, to), 0-based, end exclusive
  LET a == IF from > Len(s) THEN Len(s) ELSE from
      b == IF to > Len(s) THEN Len(s) ELSE to
  IN  IF b <= a THEN <<>> ELSE SubSeq(s, a + 1, b)

RECURSIVE TrimLeft(_)
TrimLeft(s) ==
  IF s # <<>> /\ IsWhite(Head(s)) THEN TrimLeft(Tail(s)) ELSE s

RECURSIVE TrimRight(_)
TrimRight(s) ==
  IF s # <<>> /\ IsWhite(s[Len(s)]) THEN TrimRight(SubSeq(s, 1, Len(s) - 1)) ELSE s

Trim(s) == TrimRight(TrimLeft(s))

StartsWith(s, p) == Len(s) >= Len(p) /\ SubSeq(s, 1, Len(p)) = p

Fence == <<TICK, TICK, TICK>>

\* The least i >= from with s[i..i+2] a fence, or 0.
RECURSIVE FindFence(_, _)
FindFence(s, from) ==
  IF from + 2 > Len(s) THEN 0
  ELSE IF SubSeq(s, from, from + 2) = Fence THEN from
  ELSE FindFence(s, from + 1)

\* content.replace(/<fence>[\s\S]*?<fence>/g, ''), <fence> being three backticks
RECURSIVE stripFencedCodeBlocks(_)
stripFencedCodeBlocks(s) ==
  IF s = <<>> THEN <<>>
  ELSE IF StartsWith(s, Fence) /\ FindFence(s, 4) # 0
       THEN stripFencedCodeBlocks(SubSeq(s, FindFence(s, 4) + 3, Len(s)))
       ELSE <<Head(s)>> \o stripFencedCodeBlocks(Tail(s))

\* .replace(/\r\n/g, '\n')
RECURSIVE CrLfToLf(_)
CrLfToLf(s) ==
  IF s = <<>> THEN <<>>
  ELSE IF Len(s) >= 2 /\ s[1] = "\r" /\ s[2] = NL THEN <<NL>> \o CrLfToLf(SubSeq(s, 3, Len(s)))
  ELSE <<Head(s)>> \o CrLfToLf(Tail(s))

\* The run of spaces and tabs starting at s[1] is followed by a newline.
RECURSIVE BlankRunThenNL(_)
BlankRunThenNL(s) ==
  /\ s # <<>>
  /\ \/ Head(s) = NL
     \/ Head(s) \in {SP, "\t"} /\ BlankRunThenNL(Tail(s))

\* .replace(/[ \t]+\n/g, '\n')
RECURSIVE DropBlanksBeforeNL(_)
DropBlanksBeforeNL(s) ==
  IF s = <<>> THEN <<>>
  ELSE IF Head(s) \in {SP, "\t"} /\ BlankRunThenNL(s) THEN DropBlanksBeforeNL(Tail(s))
  ELSE <<Head(s)>> \o DropBlanksBeforeNL(Tail(s))

normalizeWhitespace(s) == Trim(DropBlanksBeforeNL(CrLfToLf(s)))

\* The number of newlines s starts with.
RECURSIVE NLRun(_)
NLRun(s) == IF s # <<>> /\ Head(s) = NL THEN 1 + NLRun(Tail(s)) ELSE 0

\* cleaned.split(/\n{2,}/g): cur is the piece being read.
RECURSIVE SplitParas(_, _)
SplitParas(s, cur) ==
  IF s = <<>> THEN <<cur>>
  ELSE IF NLRun(s) >= 2 THEN <<cur>> \o SplitParas(SubSeq(s, NLRun(s) + 1, Len(s)), <<>>)
  ELSE SplitParas(Tail(s), Append(cur, Head(s)))

\* pushBuf: the trimmed buffer becomes a chunk unless it is empty.
\* A chunk is kept with its provenance: hard is TRUE for a slice of a
\* paragraph longer than maxChars.
pushBuf(out, buf) ==
  IF Trim(buf) # <<>> THEN Append(out, [text |-> Trim(buf), hard |-> FALSE]) ELSE out

\* A hard split that keeps the first slice only.
HardSplitFirstOnly(para, i, mx) == <<[text |-> Slice(para, i, i + mx), hard |-> TRUE]>>

\* for (i = 0; i < para.length; i += maxChars) chunks.push(para.slice(i, i + maxChars))
RECURSIVE HardSplit(_, _, _)
HardSplit(para, i, mx) ==
  IF i >= Len(para) THEN <<>>
  ELSE <<[text |-> Slice(para, i, i + mx), hard |-> TRUE]>> \o HardSplit(para, i + mx, mx)

\* The merge test of the paragraph loop.
MergeIntoBuf(buf, para, mx, mn) ==
  Len(buf) < mn \/ Len(buf) + 2 + Len(para) <= mx

\* The paragraph loop of chunkMarkdown and the final pushBuf.
RECURSIVE ChunkLoop(_, _, _, _, _)
ChunkLoop(paras, buf, out, mx, mn) ==
  IF paras = <<>> THEN pushBuf(out, buf)
  ELSE LET para == Trim(Head(paras))
           rest == Tail(paras)
       IN  IF para = <<>> THEN ChunkLoop(rest, buf, out, mx, mn)
           ELSE IF Len(para) > mx
                THEN ChunkLoop(rest, <<>>, pushBuf(out, buf) \o HardSplit(para, 0, mx), mx, mn)
           ELSE IF Len(buf) = 0 THEN ChunkLoop(rest, para, out, mx, mn)
           ELSE IF MergeIntoBuf(buf, para, mx, mn)
                THEN ChunkLoop(rest, buf \o <<NL, NL>> \o para, out, mx, mn)
           ELSE ChunkLoop(rest, para, pushBuf(out, buf), mx, mn)

\* The cleaned text chunkMarkdown works on.
Cleaned(c) == normalizeWhitespace(stripFencedCodeBlocks(c))

\* chunkMarkdown: the chunks in order; idx is the position in the result.
chunkMarkdown(c, mx, mn) ==
  IF Len(Cleaned(c)) = 0 THEN <<>>
  ELSE ChunkLoop(SplitParas(Cleaned(c), <<>>), <<>>, <<>>, mx, mn)

PureIdle == pureIn = <<>> /\ pureOut = <<>> /\ purePc = "idle"

NoFile == [exists |-> FALSE, text |-> <<>>]

RaceIdle == rFile = NoFile /\ rInv = <<>> /\ rWriters = <<>>

ChunkIdle ==
  /\ content = <<>> /\ maxChars = 0 /\ minChars = 0 /\ chunks = <<>> /\ chunkPc = "idle"

(***************************************************************************)
(* tokenize and bm25Score.                                                 *)
(***************************************************************************)
LowerChar(c) ==
  CASE c = "A" -> "a" [] c = "B" -> "b" [] c = "Q" -> "q" [] OTHER -> c

TokenChars ==
  {"a", "b", "c", "d", "e", "f", "g", "h", "i", "j", "k", "l", "m", "n", "o", "p", "q",
   "r", "s", "t", "u", "v", "w", "x", "y", "z", "0", "1", "2", "3", "4", "5", "6", "7",
   "8", "9", "_"}

\* The separator class taken as [^a-z0-9_-]: a hyphen is kept in a token.
IsTokenCharOrHyphen(c) == c \in TokenChars \cup {"-"}

IsTokenChar(c) == c \in TokenChars

Range(s) == {s[i] : i \in 1..Len(s)}

\* tokenize: lower-case, every run of other characters is a separator, the
\* empty pieces are dropped.  A token is the run of token characters from a
\* start (a token character that follows none) to its end.
TokenStarts(s) ==
  SelectSeq([i \in 1..Len(s) |-> i],
            LAMBDA i : IsTokenChar(s[i]) /\ (i = 1 \/ ~IsTokenChar(s[i - 1])))

TokenEnd(s, i) ==
  CHOOSE j \in i..Len(s) :
    /\ \A m \in i..j : IsTokenChar(s[m])
    /\ j = Len(s) \/ ~IsTokenChar(s[j + 1])

tokenize(text) ==
  LET s == [i \in 1..Len(text) |-> LowerChar(text[i])]
      st == TokenStarts(s)
  IN  [n \in 1..Len(st) |-> SubSeq(s, st[n], TokenEnd(s, st[n]))]

\* tokens.join(' ')
RECURSIVE JoinSP(_)
JoinSP(tokens) ==
  IF tokens = <<>> THEN <<>>
  ELSE IF Len(tokens) = 1 THEN tokens[1]
  ELSE tokens[1] \o <<SP>> \o JoinSP(Tail(tokens))

\* Scores are doubles in the code; here a score is an integer number of
\* 1/SCALE.
SCALE == 10000

\* SCALE * atanh(a/b) as 2 * (y + y^3/3 + y^5/5 + ...), y = a/b, |y| < 1:
\* t is SCALE * y^k.
RECURSIVE AtanhSum(_, _, _, _)
AtanhSum(t, k, a, b) ==
  IF t = 0 THEN 0 ELSE (t \div k) + AtanhSum((t * a * a) \div (b * b), k + 2, a, b)

\* SCALE * Math.log(p / q), p > q > 0:  ln x = 2 atanh((x - 1) / (x + 1)).
Ln(p, q) == (2 * AtanhSum((100 * SCALE * (p - q)) \div (p + q), 1, p - q, p + q)) \div 100

\* k1 = 1.2 and b = 0.75, the defaults of bm25Score, in tenths and hundredths.
K1 == 12
B == 75

\* idf = Math.log(1 + (totalDocs - df + 0.5) / (df + 0.5))
Idf(totalDocs, df) == Ln(2 * totalDocs + 2, 2 * df + 1)

Count(s, x) == Cardinality({i \in 1..Len(s) : s[i] = x})

\* One query term's summand: 0 when the document lacks the term, else
\* idf * (tf * (k1 + 1)) / (tf + k1 * (1 - b + b * (docLen / avgDocLen))),
\* avgDocLen being avg[1] / avg[2].
TermScore(term, docTokens, avg, docFreqByTerm, totalDocs) ==
  LET termTf == Count(docTokens, term)
      df == IF term \in DOMAIN docFreqByTerm THEN docFreqByTerm[term] ELSE 0
      docLen == Len(docTokens)
  IN  IF termTf = 0 THEN 0
      ELSE (Idf(totalDocs, df) * (100 * termTf * (K1 + 10) * avg[1]))
             \div (1000 * termTf * avg[1] + K1 * ((100 - B) * avg[1] + B * docLen * avg[2]))

RECURSIVE SumTerms(_, _, _, _, _)
SumTerms(queryTokens, docTokens, avg, docFreqByTerm, totalDocs) ==
  IF queryTokens = <<>> THEN 0
  ELSE TermScore(Head(queryTokens), docTokens, avg, docFreqByTerm, totalDocs)
         + SumTerms(Tail(queryTokens), docTokens, avg, docFreqByTerm, totalDocs)

\* bm25Score with a guard for the corpus of one document as well.
bm25ScoreGuardOneDoc(queryTokens, docTokens, avg, docFreqByTerm, totalDocs) ==
  IF Len(docTokens) = 0 \/ totalDocs = 1 THEN 0
  ELSE SumTerms(queryTokens, docTokens, avg, docFreqByTerm, totalDocs)

bm25Score(queryTokens, docTokens, avg, docFreqByTerm, totalDocs) ==
  IF Len(docTokens) = 0 THEN 0
  ELSE SumTerms(queryTokens, docTokens, avg, docFreqByTerm, totalDocs)

\* The corpus statistics both searches compute before scoring: tokensOf[i]
\* are the tokens of document i.
DocFreqByTerm(queryTokens, tokensOf) ==
  [t \in Range(queryTokens) |->
     Cardinality({i \in DOMAIN tokensOf : t \in Range(tokensOf[i])})]

\* totalLen: the sum of tokens.length over the documents, counted as the
\* places <<document, token index>>.
TotalLen(tokensOf) ==
  Cardinality(UNION {{<<i, j>> : j \in 1..Len(tokensOf[i])} : i \in DOMAIN tokensOf})

\* avgDocLen || 1, as numerator and denominator.
AvgDocLen(tokensOf) ==
  IF TotalLen(tokensOf) = 0 THEN <<1, 1>> ELSE <<TotalLen(tokensOf), Len(tokensOf)>>

\* Array.prototype.sort with (a, b) => getScore[b] - getScore[a]: descending,
\* and stable, so equal scores keep the order they have in items.  A pair
\* <<place in items, score>> comes before another when its score is greater,
\* or equal with a smaller place.
SortsBefore(x, y) == x[2] > y[2] \/ (x[2] = y[2] /\ x[1] < y[1])

StableSortDesc(items, getScore) ==
  LET pairs == SortSeq([i \in 1..Len(items) |-> <<i, getScore[items[i]]>>], SortsBefore)
  IN  [p \in 1..Len(items) |-> items[pairs[p][1]]]

\* Math.max(1, k)
TopCount(k) == IF k > 1 THEN k ELSE 1

(***************************************************************************)
(* Embeddings: cache keys, vectors, cosine, normalisation.                 *)
(***************************************************************************)
\* sanitizeForEmbeddings: a secret-shaped token is replaced by its redaction.
\* "sk-KEY1" and "sk-KEY2" each stand for one whole sk-... key of 20 or more
\* characters.
sanitizeForEmbeddings(text) ==
  [i \in 1..Len(text) |-> IF text[i] \in {"sk-KEY1", "sk-KEY2"} THEN "sk-REDACTED" ELSE text[i]]

\* sha256Hex(`${provider}\n${model}\n${dimensions ?? ''}\n${sanitized}`): the
\* hash is taken to be injective, so the key is the hashed string.
ChunkKey(cfg, text) ==
  <<cfg.provider, NL, cfg.model, NL, cfg.dimensions, NL>> \o sanitizeForEmbeddings(text)

QueryKey(cfg, query) ==
  <<cfg.provider, NL, cfg.model, NL, cfg.dimensions, NL, "QUERY", NL>>
    \o sanitizeForEmbeddings(query)

\* new Float32Array(v): the vectors of the model have components a float32
\* holds exactly; a missing vector (undefined) gives the empty array.
Float32Array(v) == IF v = "undefined" THEN <<>> ELSE v

\* The four bytes of a component.  The components of the model are small
\* integers, and the little-endian two's complement of a component stands
\* for its IEEE-754 bytes; a base64 text is known by the bytes it encodes.
Bytes4(x) ==
  IF x >= 0 THEN <<x % 256, 0, 0, 0>> ELSE <<(x + 256) % 256, 255, 255, 255>>

FromBytes4(b) == IF b[4] = 255 THEN b[1] - 256 ELSE b[1]

RECURSIVE base64FromFloat32Array(_)
base64FromFloat32Array(arr) ==
  IF Float32Array(arr) = <<>> THEN <<>>
  ELSE Bytes4(Head(Float32Array(arr))) \o base64FromFloat32Array(Tail(Float32Array(arr)))

float32ArrayFromBase64(b64) ==
  [i \in 1..(Len(b64) \div 4) |-> FromBytes4(SubSeq(b64, 4 * i - 3, 4 * i))]

\* The cache entry the code stores for a vector.
CacheEntry(cfg, v) ==
  [model |-> cfg.model, dimensions |-> cfg.dimensions, b64 |-> base64FromFloat32Array(v)]

Isqrt(n) == CHOOSE r \in 0..n : r * r <= n /\ n < (r + 1) * (r + 1)

\* cachePath: embeddings.${provider}.${model}.${dimensions ?? 'default'}.json
CachePath(cfg) ==
  <<"embeddings", cfg.provider, cfg.model,
    IF cfg.dimensions = "" THEN "default" ELSE cfg.dimensions, "json">>

\* readJsonIfExists(cachePath) ?? {}
ReadCache(files, path) == IF path \in DOMAIN files THEN files[path] ELSE <<>>

\* The cache getEmbeddingsForChunks starts from: empty with --reindex.
LoadCacheIgnoringFile(reindex, files, path) == <<>>

\* The cache read from the file even with --reindex.
LoadCacheDespiteReindex(reindex, files, path) == ReadCache(files, path)

LoadCache(reindex, files, path) == IF reindex THEN <<>> ELSE ReadCache(files, path)

\* writeJson(cachePath, cache): the whole file is replaced.
WriteJsonNothing(files, path, cache) == files

WriteJson(files, path, cache) ==
  [p \in DOMAIN files \cup {path} |-> IF p = path THEN cache ELSE files[p]]

RECURSIVE Dot(_, _, _)
Dot(a, b, n) == IF n = 0 THEN 0 ELSE a[n] * b[n] + Dot(a, b, n - 1)

\* A cosine is an integer number of 1/COSUNIT: exact for the vectors of the
\* model, whose norms are 0, 1 or 11.
COSUNIT == 121

cosineSimilarity(a, b) ==
  LET n == IF Len(a) < Len(b) THEN Len(a) ELSE Len(b)
      denom == Isqrt(Dot(a, a, n)) * Isqrt(Dot(b, b, n))
      num == Dot(a, b, n) * COSUNIT
  IN  IF denom = 0 THEN 0
      ELSE IF num >= 0 THEN num \div denom ELSE -((-num) \div denom)

SeqMin(s) == CHOOSE x \in Range(s) : \A y \in Range(s) : x <= y
SeqMax(s) == CHOOSE x \in Range(s) : \A y \in Range(s) : x >= y

\* clamp01 of num / den, den > 0, as a numerator over den.
clamp01(num, den) == IF num < 0 THEN 0 ELSE IF num > den THEN den ELSE num

\* Scores normalised over the scores of all the chunks, not of the items.
normalizeScoresOverAllChunks(items, getScore) ==
  LET raw == [i \in DOMAIN getScore |-> getScore[i]]
      lo == SeqMin(raw)
      hi == SeqMax(raw)
  IN  IF lo = hi
      THEN [den |-> 1, num |-> [d \in Range(items) |-> 0]]
      ELSE [den |-> hi - lo, num |-> [d \in Range(items) |-> clamp01(getScore[d] - lo, hi - lo)]]

\* normalizeScores: (s - min) / (max - min), clamped to [0, 1]; all 0 when
\* min === max.  The values are kept as exact fractions num[i] / den with
\* one denominator.
normalizeScores(items, getScore) ==
  LET raw == [i \in 1..Len(items) |-> getScore[items[i]]]
      lo == SeqMin(raw)
      hi == SeqMax(raw)
  IN  IF lo = hi
      THEN [den |-> 1, num |-> [d \in Range(items) |-> 0]]
      ELSE [den |-> hi - lo, num |-> [d \in Range(items) |-> clamp01(getScore[d] - lo, hi - lo)]]

\* The weights of the fusion, in hundredths.
WBM25 == 45
WCOS == 55

\* The windows of the candidate union.
TOPKEYWORD == 80
TOPSEMANTIC == 80

(***************************************************************************)
(* Memory search: main() of memory/search.mjs.                             *)
(***************************************************************************)
\* A chunk is known by its place in mChunks: its id hashes (filePath, idx,
\* text), and no two chunks share (filePath, idx).
MemTokens(chunkTexts) == [i \in 1..Len(chunkTexts) |-> tokenize(chunkTexts[i])]

\* c.bm25 for every chunk.
MemBm25(chunkTexts, query) ==
  LET toks == MemTokens(chunkTexts)
      qt == tokenize(query)
      avg == AvgDocLen(toks)
      df == DocFreqByTerm(qt, toks)
  IN  [i \in 1..Len(chunkTexts) |-> bm25Score(qt, toks[i], avg, df, Len(chunkTexts))]

Ids(n) == [i \in 1..n |-> i]

\* keywordSorted with the comparator reversed: (a, b) => a.bm25 - b.bm25.
keywordSortedAscending(bm) == StableSortDesc(Ids(Len(bm)), [i \in DOMAIN bm |-> -bm[i]])

\* keywordSorted, from the c.bm25 of the chunks.
keywordSorted(bm) == StableSortDesc(Ids(Len(bm)), bm)

\* The keyword branch: top = keywordSorted.slice(0, Math.max(1, k)), and
\* every element of top is printed.
KeywordRanked(bm) ==
  LET ks == keywordSorted(bm)
  IN  [p \in 1..Len(ks) |-> [doc |-> ks[p], bm25 |-> bm[ks[p]], score |-> bm[ks[p]]]]

\* c.cosine for every chunk, from the cache the run holds.
MemCosine(chunkTexts, query, cfg, cache) ==
  LET queryVec == float32ArrayFromBase64(cache[QueryKey(cfg, query)].b64)
  IN  [i \in 1..Len(chunkTexts) |->
         IF ChunkKey(cfg, chunkTexts[i]) \notin DOMAIN cache THEN 0
         ELSE cosineSimilarity(queryVec,
                float32ArrayFromBase64(cache[ChunkKey(cfg, chunkTexts[i])].b64))]

\* byId over [...topKeyword, ...topSemantic]: a Map keeps the place of the
\* first insertion of a key.
FirstOf(s, i) == \A j \in 1..(i - 1) : s[j] # s[i]

Dedup(s) ==
  LET firsts == SelectSeq([i \in 1..Len(s) |-> i], LAMBDA i : FirstOf(s, i))
  IN  [p \in 1..Len(firsts) |-> s[firsts[p]]]

\* The candidates taken from the keyword window alone.
CandidatesKeywordOnly(bm, cos) == Dedup(Slice(keywordSorted(bm), 0, TOPKEYWORD))

Candidates(bm, cos) ==
  LET topKeyword == Slice(keywordSorted(bm), 0, TOPKEYWORD)
      topSemantic == Slice(StableSortDesc(Ids(Len(cos)), cos), 0, TOPSEMANTIC)
  IN  Dedup(topKeyword \o topSemantic)

\* The semantic branch from the candidate union on: combined is
\* 0.45 * normBm25 + 0.55 * normCos, kept as num / den with one den.
Combined(cands, bm, cos) ==
  LET normBm25 == normalizeScores(cands, bm)
      normCos == normalizeScores(cands, cos)
  IN  [den |-> 100 * normBm25.den * normCos.den,
       num |-> [i \in Range(cands) |->
                  WBM25 * normBm25.num[i] * normCos.den + WCOS * normCos.num[i] * normBm25.den]]

SemanticRanked(cands, bm, cos, combined) ==
  LET sorted == StableSortDesc(cands, combined.num)
  IN  [p \in 1..Len(sorted) |->
         [doc |-> sorted[p], bm25 |-> bm[sorted[p]], cosine |-> cos[sorted[p]],
          score |-> combined.num[sorted[p]], scoreDen |-> combined.den]]

\* Texts of the model: "-" stands for any character that is no token
\* character and no white space.
tA == <<"a">>
tB == <<"b">>
tAA == <<"a", "-", "A">>
tNone == <<"-">>
DocTexts == {tAA, tB, tNone}
Queries == {<<"a">>, <<"a", SP, "b">>}

\* Vectors an embeddings provider may return.
Vectors == {<<1, 0, 0>>, <<-1, 0, 0>>, <<7, 6, 6>>}

\* The vector the provider returned for the query of a run whose embeddings
\* are all cached.
QueryVector == <<1, 0, 0>>

DefaultCfg == [provider |-> "openai", model |-> "text-embedding-3-small", dimensions |-> ""]

NonEmptySeqsUpTo(S, n) == SeqsUpTo(S, n) \ {<<>>}

\* The keys a run over chunkTexts and query reads from the cache.
NeededKeys(cfg, chunkTexts, query) ==
  {ChunkKey(cfg, chunkTexts[i]) : i \in 1..Len(chunkTexts)} \cup {QueryKey(cfg, query)}

NoPrev ==
  [chunks |-> <<>>, cfg |-> DefaultCfg, fetched |-> FALSE, done |-> FALSE, asked |-> FALSE,
   ranked |-> <<>>]

SemIdle ==
  /\ sApiKey = FALSE /\ sReindex = FALSE /\ sCache = <<>> /\ sMissing = <<>> /\ sNext = 0
  /\ sRequests = <<>> /\ sWrites = 0 /\ sNotice = FALSE /\ sFetched = FALSE /\ sRun = 0
  /\ sPrev = NoPrev /\ sFileAtStart = <<>>

\* A ranking whose order depends on the invocation: reversed in every
\* second one.
RankSemanticByRun(bm, cache) ==
  /\ mCosine' = MemCosine(mChunks, mQuery, mCfg, cache)
  /\ mCandidates' = Candidates(bm, mCosine')
  /\ mCombined' = Combined(mCandidates', bm, mCosine')
  /\ mRanked' = LET r == SemanticRanked(mCandidates', bm, mCosine', mCombined')
                IN  IF sRun % 2 = 0 THEN [p \in 1..Len(r) |-> r[Len(r) + 1 - p]] ELSE r
  /\ mShown' = Slice(mRanked', 0, TopCount(mK))

\* The ranking of the semantic branch, from the cosine of the chunks on.
RankSemantic(bm, cache) ==
  /\ mCosine' = MemCosine(mChunks, mQuery, mCfg, cache)
  /\ mCandidates' = Candidates(bm, mCosine')
  /\ mCombined' = Combined(mCandidates', bm, mCosine')
  /\ mRanked' = SemanticRanked(mCandidates', bm, mCosine', mCombined')
  /\ mShown' = Slice(mRanked', 0, TopCount(mK))

NoRanking == UNCHANGED <<mCosine, mCandidates, mCombined, mRanked, mShown>>

MemIdle ==
  /\ mChunks = <<>> /\ mQuery = <<>> /\ mK = 0 /\ mSemantic = FALSE /\ mCfg = DefaultCfg
  /\ cacheFile = <<>> /\ mPc = "idle"
  /\ mBm25 = <<>> /\ mCosine = <<>> /\ mCandidates = <<>> /\ mCombined = <<>>
  /\ mRanked = <<>> /\ mShown = <<>>

\* A keyword run, or a semantic run that finds every embedding it needs in
\* the cache file written by earlier runs.
InitMemSearch ==
  /\ mChunks \in NonEmptySeqsUpTo(DocTexts, MaxDocs)
  /\ mQuery \in Queries
  /\ mK \in 0..MaxK
  /\ mSemantic \in BOOLEAN
  /\ mCfg = DefaultCfg
  /\ IF mSemantic
     THEN cacheFile \in
            {WriteJson(<<>>, CachePath(mCfg), c) :
               c \in {e \in [NeededKeys(mCfg, mChunks, mQuery) ->
                                {CacheEntry(mCfg, v) : v \in Vectors}] :
                        e[QueryKey(mCfg, mQuery)] = CacheEntry(mCfg, QueryVector)}}
     ELSE cacheFile = <<>>
  /\ mPc = "input"
  /\ mBm25 = <<>> /\ mCosine = <<>> /\ mCandidates = <<>> /\ mCombined = <<>>
  /\ mRanked = <<>>
  /\ mShown = <<>>

MemSearchKeyword ==
  /\ mPc = "input"
  /\ ~mSemantic
  /\ mBm25' = MemBm25(mChunks, mQuery)
  /\ mRanked' = KeywordRanked(mBm25')
  /\ mShown' = Slice(mRanked', 0, TopCount(mK))
  /\ mPc' = "done"
  /\ UNCHANGED <<mChunks, mQuery, mK, mSemantic, mCfg, cacheFile, mCosine, mCandidates,
                 mCombined, chunkVars, convVars, parseVars, semVars, pureVars, raceVars>>

\* getEmbeddingsForChunks finds nothing missing, the query key is cached:
\* no request, no write.
MemSearchSemanticCached ==
  /\ mPc = "input"
  /\ mSemantic
  /\ NeededKeys(mCfg, mChunks, mQuery) \subseteq DOMAIN ReadCache(cacheFile, CachePath(mCfg))
  /\ mBm25' = MemBm25(mChunks, mQuery)
  /\ RankSemantic(mBm25', ReadCache(cacheFile, CachePath(mCfg)))
  /\ mPc' = "done"
  /\ UNCHANGED <<mChunks, mQuery, mK, mSemantic, mCfg, cacheFile, chunkVars, convVars,
                 parseVars, semVars, pureVars, raceVars>>

(***************************************************************************)
(* Conversation search: transcript lines, the two parsers, main().         *)
(***************************************************************************)
\* A value read from a transcript keeps one shape per field here:
\*   a timestamp is <<>> when absent or null, else <<date, time>>, date
\*     standing for its first 10 characters (dates 1, 2, 3 are ordered as
\*     their YYYY-MM-DD strings are); a date of 0 is null;
\*   a content is absent, a string, or an array of blocks;
\*   a payload is absent or an object.
\* kind is "blank" (empty or white space), "invalid" (JSON.parse throws),
\* "null" (the JSON literal null) or "obj".
NoContent == [shape |-> "absent", text |-> <<>>, blocks |-> <<>>]
Str(text) == [shape |-> "string", text |-> text, blocks |-> <<>>]
Blocks(blocks) == [shape |-> "array", text |-> <<>>, blocks |-> blocks]

NoPayload == [present |-> FALSE, cwd |-> <<>>, timestamp |-> <<>>, role |-> "none",
              content |-> NoContent]
Payload(cwd, timestamp, role, body) ==
  [present |-> TRUE, cwd |-> cwd, timestamp |-> timestamp, role |-> role, content |-> body]

Line(kind, type, timestamp, message, payload) ==
  [kind |-> kind, type |-> type, timestamp |-> timestamp, message |-> message,
   payload |-> payload]

NoTimestamp == <<>>
TS(date) == <<date, "T00:00:00Z">>
DateOf(timestamp) == timestamp[1]      \* timestamp.slice(0, 10)

InvalidLine == Line("invalid", "none", NoTimestamp, NoContent, NoPayload)
NullLine == Line("null", "none", NoTimestamp, NoContent, NoPayload)
ClaudeLine(type, timestamp, text) == Line("obj", type, timestamp, Str(text), NoPayload)
CodexMeta(cwd, timestamp) ==
  Line("obj", "session_meta", NoTimestamp, NoContent, Payload(cwd, timestamp, "none", NoContent))
CodexItem(role, timestamp, text) ==
  Line("obj", "response_item", timestamp, NoContent,
       Payload(<<>>, NoTimestamp, role, Blocks(<<[type |-> "input_text", text |-> text]>>)))

RECURSIVE JoinNL(_)
JoinNL(parts) ==
  IF parts = <<>> THEN <<>>
  ELSE IF Len(parts) = 1 THEN parts[1]
  ELSE parts[1] \o <<NL>> \o JoinNL(Tail(parts))

BlockTexts(blocks, types) ==
  LET keep == SelectSeq(blocks, LAMBDA b : b.type \in types)
  IN  [i \in 1..Len(keep) |-> keep[i].text]

\* message is obj.message of the line: its content.
extractClaudeText(message) ==
  IF message.shape = "string" THEN message.text
  ELSE IF message.shape = "array" THEN JoinNL(BlockTexts(message.blocks, {"text"}))
  ELSE <<>>

extractCodexText(payload) ==
  IF ~payload.present THEN <<>>
  ELSE IF payload.content.shape # "array" THEN <<>>
  ELSE JoinNL(BlockTexts(payload.content.blocks, {"input_text", "output_text", "text"}))

\* text.slice(0, 120).replace(/\s+/g, ' ').trim()
LABELCHARS == 120

CollapseWhite(s) ==
  LET keep == SelectSeq([i \in 1..Len(s) |-> i],
                        LAMBDA i : ~IsWhite(s[i]) \/ i = 1 \/ ~IsWhite(s[i - 1]))
  IN  [n \in 1..Len(keep) |-> IF IsWhite(s[keep[n]]) THEN SP ELSE s[keep[n]]]

FirstLabel(text) == Trim(CollapseWhite(Slice(text, 0, LABELCHARS)))

\* A test that every cwd passes.
IncludesAnything(s, sub) == TRUE

\* s.includes(sub)
Includes(s, sub) ==
  \E i \in 1..(Len(s) - Len(sub) + 1) : SubSeq(s, i, i + Len(sub) - 1) = sub

repoName == <<"r">>
AgentsHeader == <<"#", SP, "A", "G", "E", "N", "T", "S", ".", "m", "d">>

\* The state of a parser (an async generator): its locals, what it has
\* yielded, the lines it has read, and whether it runs, has returned early
\* ("returned"), has read the whole file ("done") or has thrown ("threw").
\* firstUserMessage <<>> is null or the empty string, both falsy.
ParserStart ==
  [firstUserMessage |-> <<>>, sessionDate |-> 0, isRelevantRepo |-> FALSE,
   status |-> "running", out |-> <<>>, read |-> 0]

Message(type, text, timestamp, sessionDate, firstUserMessage) ==
  [type |-> type, text |-> text, timestamp |-> timestamp,
   sessionDate |-> sessionDate, firstUserMessage |-> firstUserMessage]

\* One line of the loop of parseClaudeSession.
ClaudeStep(st, line, sinceDate) ==
  LET st1 == [st EXCEPT !.read = @ + 1]
  IN  IF line.kind \in {"blank", "invalid"} THEN st1
      ELSE IF line.kind = "null" THEN [st1 EXCEPT !.status = "threw"]
      ELSE IF line.type \notin {"user", "assistant"} THEN st1
      ELSE
        LET setsDate == line.timestamp # <<>> /\ st.sessionDate = 0
            date == IF setsDate THEN DateOf(line.timestamp) ELSE st.sessionDate
            st2 == [st1 EXCEPT !.sessionDate = date]
            text == extractClaudeText(line.message)
            label == IF line.type = "user" /\ st.firstUserMessage = <<>>
                     THEN FirstLabel(text) ELSE st.firstUserMessage
        IN  IF setsDate /\ sinceDate # 0 /\ date < sinceDate
            THEN [st2 EXCEPT !.status = "returned"]
            ELSE IF Trim(text) = <<>> THEN st2
            ELSE [st2 EXCEPT
                    !.firstUserMessage = label,
                    !.out = Append(@, Message(line.type, text, line.timestamp, date, label))]

\* One line of the loop of parseCodexSession.
CodexStep(st, line, sinceDate) ==
  LET st1 == [st EXCEPT !.read = @ + 1]
  IN  IF line.kind \in {"blank", "invalid"} THEN st1
      ELSE IF line.kind = "null" THEN [st1 EXCEPT !.status = "threw"]
      ELSE IF line.type = "session_meta"
      THEN
        LET ts == IF line.payload.timestamp # <<>> THEN line.payload.timestamp
                  ELSE line.timestamp
            setsDate == ts # <<>> /\ st.sessionDate = 0
            date == IF setsDate THEN DateOf(ts) ELSE st.sessionDate
            st2 == [st1 EXCEPT !.isRelevantRepo = @ \/ Includes(line.payload.cwd, repoName),
                               !.sessionDate = date]
        IN  IF setsDate /\ sinceDate # 0 /\ date < sinceDate
            THEN [st2 EXCEPT !.status = "returned"]
            ELSE st2
      ELSE IF ~st.isRelevantRepo THEN st1
      ELSE IF line.type # "response_item" THEN st1
      ELSE IF line.payload.role \notin {"user", "assistant"} THEN st1
      ELSE
        LET role == line.payload.role
            date == IF line.timestamp # <<>> /\ st.sessionDate = 0
                    THEN DateOf(line.timestamp) ELSE st.sessionDate
            st2 == [st1 EXCEPT !.sessionDate = date]
            text == extractCodexText(line.payload)
            label == IF role = "user" /\ st.firstUserMessage = <<>>
                     THEN FirstLabel(text) ELSE st.firstUserMessage
        IN  IF Trim(text) = <<>> \/ StartsWith(text, <<"<">>) \/ StartsWith(text, AgentsHeader)
            THEN st2
            ELSE [st2 EXCEPT !.firstUserMessage = label,
                             !.out = Append(@, Message(role, text, line.timestamp, date, label))]

ParserStep(source, st, line, sinceDate) ==
  IF source = "codex" THEN CodexStep(st, line, sinceDate) ELSE ClaudeStep(st, line, sinceDate)

\* The generator run over a whole file, as the for await of main drains it.
RECURSIVE ParseFrom(_, _, _, _)
ParseFrom(source, st, lines, sinceDate) ==
  IF st.status # "running" THEN st
  ELSE IF lines = <<>> THEN [st EXCEPT !.status = "done"]
  ELSE ParseFrom(source, ParserStep(source, st, Head(lines), sinceDate), Tail(lines), sinceDate)

ParseSession(source, lines, sinceDate) == ParseFrom(source, ParserStart, lines, sinceDate)

\* The first characters of the text that enter the id of a document.
IDCHARS == 500

\* sha256Hex(`${sf.sessionId}\n${msg.timestamp}\n${msg.text.slice(0, 500)}`):
\* the hash is taken to be injective, so the id is the hashed string.
DocId(sessionId, msg) ==
  [sessionId |-> sessionId, timestamp |-> msg.timestamp, text |-> Slice(msg.text, 0, IDCHARS)]

FileDocs(sf, sinceDate) ==
  LET out == ParseSession(sf.source, sf.lines, sinceDate).out
  IN  [i \in 1..Len(out) |->
         [id |-> DocId(sf.sessionId, out[i]), sessionId |-> sf.sessionId,
          source |-> sf.source, role |-> out[i].type, text |-> out[i].text,
          timestamp |-> out[i].timestamp, sessionDate |-> out[i].sessionDate,
          firstUserMessage |-> out[i].firstUserMessage]]

\* docs after the loop over sessionFiles: a parser that throws keeps what
\* it had yielded, and the loop goes on with the next file.
RECURSIVE ConvDocs(_, _)
ConvDocs(files, sinceDate) ==
  IF files = <<>> THEN <<>>
  ELSE FileDocs(Head(files), sinceDate) \o ConvDocs(Tail(files), sinceDate)

\* docTokensById.get(doc.id) for every document: a Map keeps the last value
\* set for a key.
ConvTokensById(docs, ownTokens) ==
  [i \in 1..Len(docs) |->
     ownTokens[CHOOSE j \in 1..Len(docs) :
                 /\ docs[j].id = docs[i].id
                 /\ \A m \in (j + 1)..Len(docs) : docs[m].id # docs[i].id]]

\* doc.score for every document: df and avgDocLen come from each
\* document's own tokens, docTokens from the Map.
ConvScores(query, ownTokens, tokensById) ==
  LET qt == tokenize(query)
  IN  [i \in 1..Len(ownTokens) |->
         bm25Score(qt, tokensById[i], AvgDocLen(ownTokens), DocFreqByTerm(qt, ownTokens),
                   Len(ownTokens))]

\* docs.sort((a, b) => b.score - a.score)
ConvRanked(scores) ==
  LET sorted == StableSortDesc(Ids(Len(scores)), scores)
  IN  [p \in 1..Len(sorted) |-> [doc |-> sorted[p], score |-> scores[sorted[p]]]]

\* The lines printed: top without the documents of score 0.
ConvShown(ranked, k) ==
  SelectSeq(Slice(ranked, 0, TopCount(k)), LAMBDA r : r.score # 0)

\* Texts longer than the id prefix: they agree on their first IDCHARS
\* characters and differ after them.
Pad == [i \in 1..IDCHARS |-> "-"]
LongA == Pad \o <<"a">>
LongB == Pad \o <<"b">>

ClaudeLines ==
  {ClaudeLine("user", NoTimestamp, tA),
   ClaudeLine("user", NoTimestamp, LongA), ClaudeLine("user", NoTimestamp, LongB),
   ClaudeLine("assistant", TS(1), tA), InvalidLine}

CodexLines ==
  {CodexMeta(<<"/", "r">>, NoTimestamp), CodexItem("user", NoTimestamp, tA),
   CodexItem("assistant", TS(3), tB)}

\* One Claude Code session file followed by one Codex session file, as
\* main() lists them, with at most n lines in all.
SessionFiles(n) ==
  {<<[sessionId |-> "s1", source |-> "claude", lines |-> l1],
     [sessionId |-> "s2", source |-> "codex", lines |-> l2]>> :
     l1 \in SeqsUpTo(ClaudeLines, n), l2 \in SeqsUpTo(CodexLines, n)}

SinceDates == {0, 2}

ParseIdle ==
  /\ pSource = "none" /\ pLines = <<>> /\ pSince = 0 /\ pState = ParserStart

ConvIdle ==
  /\ cFiles = <<>> /\ cQuery = <<>> /\ cK = 0 /\ cSince = 0 /\ cPc = "idle"
  /\ cDocs = <<>> /\ cOwnTokens = <<>> /\ cTokensById = <<>> /\ cScore = <<>>
  /\ cRanked = <<>> /\ cShown = <<>> /\ cListed = <<>>

InitConvSearch ==
  /\ cFiles \in {f \in SessionFiles(MaxDocs) : Len(f[1].lines) + Len(f[2].lines) <= MaxDocs}
  /\ cQuery \in Queries
  /\ cK \in 0..MaxK
  /\ cSince \in SinceDates
  /\ cPc = "input"
  /\ cDocs = <<>> /\ cOwnTokens = <<>> /\ cTokensById = <<>> /\ cScore = <<>>
  /\ cRanked = <<>> /\ cShown = <<>> /\ cListed = <<>>

\* main() of conversations/search.mjs in search mode.
ConvSearch ==
  /\ cPc = "input"
  /\ cDocs' = ConvDocs(cFiles, cSince)
  /\ cOwnTokens' = [i \in 1..Len(cDocs') |-> tokenize(cDocs'[i].text)]
  /\ cTokensById' = ConvTokensById(cDocs', cOwnTokens')
  /\ cScore' = ConvScores(cQuery, cOwnTokens', cTokensById')
  /\ cRanked' = ConvRanked(cScore')
  /\ cShown' = ConvShown(cRanked', cK)
  /\ cPc' = "done"
  /\ UNCHANGED <<cFiles, cQuery, cK, cSince, cListed, chunkVars, memVars, parseVars, semVars,
                 pureVars, raceVars>>

InitSearch ==
  /\ PureIdle /\ RaceIdle
  /\ ChunkIdle
  /\ ParseIdle
  /\ SemIdle
  /\ \/ InitMemSearch /\ ConvIdle
     \/ MemIdle /\ InitConvSearch

NextSearch == MemSearchKeyword \/ MemSearchSemanticCached \/ ConvSearch

SpecSearch == InitSearch /\ [][NextSearch]_vars


(***************************************************************************)
(* Properties of the two searches, over SpecSearch.                        *)
(***************************************************************************)
SharesTerm(queryTokens, docTokens) == Range(queryTokens) \cap Range(docTokens) # {}

\* C6: with semantic mode off every result shown has a BM25 score above 0,
\* in memory search and in conversation search alike.
C6_ShownScoresPositive ==
  /\ (mPc = "done" /\ ~mSemantic) => \A p \in 1..Len(mShown) : mShown[p].bm25 > 0
  /\ cPc = "done" => \A p \in 1..Len(cShown) : cShown[p].score > 0

\* ranked is in descending order of score, and of two entries with equal
\* score the one of the lesser place comes first.
OrderedBy(ranked, place) ==
  \A p, q \in 1..Len(ranked) :
    p < q => \/ ranked[p].score > ranked[q].score
             \/ /\ ranked[p].score = ranked[q].score
                /\ place[ranked[p].doc] < place[ranked[q].doc]

\* The place of a document in discovery order, n documents in all.
Discovery(n) == [d \in 1..n |-> d]

\* The place of a candidate in the candidate list.
CandidateOrder ==
  [d \in Range(mCandidates) |-> CHOOSE i \in 1..Len(mCandidates) : mCandidates[i] = d]

\* C7: the ranked list is in descending order of the active score, and
\* results of equal active score are in discovery order, in keyword mode
\* and in semantic mode.
C7_TiesInDiscoveryOrder ==
  /\ mPc = "done" => OrderedBy(mRanked, Discovery(Len(mChunks)))
  /\ cPc = "done" => OrderedBy(cRanked, Discovery(Len(cDocs)))

\* C7, as the code has it: descending order of the active score in every
\* mode; equal scores are in discovery order in keyword mode and in
\* conversation search, and in the order of the candidate list in semantic
\* mode.
C7_TiesInSortInputOrder ==
  /\ (mPc = "done" /\ ~mSemantic) => OrderedBy(mRanked, Discovery(Len(mChunks)))
  /\ (mPc = "done" /\ mSemantic) => OrderedBy(mRanked, CandidateOrder)
  /\ cPc = "done" => OrderedBy(cRanked, Discovery(Len(cDocs)))

\* A semantic run has ranked two chunks of equal combined score with the
\* one discovered later first.
C7_SemanticTieOutOfDiscoveryOrder ==
  /\ mPc = "done" /\ mSemantic
  /\ \E p, q \in 1..Len(mRanked) :
       /\ p < q
       /\ mRanked[p].score = mRanked[q].score
       /\ mRanked[p].doc > mRanked[q].doc

\* C9: the score is 0 for every document of a corpus of one document, and
\* for every document without tokens.
C9_DegenerateCasesScoreZero ==
  /\ mPc = "done" =>
       \A i \in 1..Len(mChunks) :
         (Len(mChunks) = 1 \/ tokenize(mChunks[i]) = <<>>) => mBm25[i] = 0
  /\ cPc = "done" =>
       \A i \in 1..Len(cDocs) :
         (Len(cDocs) = 1 \/ cTokensById[i] = <<>>) => cScore[i] = 0

\* C9, as the code has it: a document without tokens scores 0; the one
\* document of a corpus of one scores 0 when it shares no term with the
\* query and above 0 when it shares one.
C9_ZeroTokensOrNoSharedTerm ==
  /\ mPc = "done" =>
       /\ \A i \in 1..Len(mChunks) : tokenize(mChunks[i]) = <<>> => mBm25[i] = 0
       /\ Len(mChunks) = 1 =>
            (mBm25[1] > 0 <=> SharesTerm(tokenize(mQuery), tokenize(mChunks[1])))
  /\ cPc = "done" =>
       /\ \A i \in 1..Len(cDocs) : cTokensById[i] = <<>> => cScore[i] = 0
       /\ Len(cDocs) = 1 =>
            (cScore[1] > 0 <=> SharesTerm(tokenize(cQuery), cTokensById[1]))

\* A corpus of one document that holds a query term has been scored.
C9_OneDocCorpusScored ==
  \/ mPc = "done" /\ Len(mChunks) = 1 /\ SharesTerm(tokenize(mQuery), tokenize(mChunks[1]))
  \/ cPc = "done" /\ Len(cDocs) = 1 /\ SharesTerm(tokenize(cQuery), cOwnTokens[1])

\* C10: a document that shares no term with the query scores exactly 0, and
\* a document that holds a query term of df below N scores above 0, df and
\* N being those of the corpus searched.
C10_ZeroIffNoSharedTerm ==
  /\ mPc = "done" =>
       LET qt == tokenize(mQuery)
           toks == MemTokens(mChunks)
           df == DocFreqByTerm(qt, toks)
       IN  \A i \in 1..Len(mChunks) :
             /\ ~SharesTerm(qt, toks[i]) => mBm25[i] = 0
             /\ (\E t \in Range(qt) \cap Range(toks[i]) : df[t] < Len(mChunks)) => mBm25[i] > 0
  /\ cPc = "done" =>
       LET qt == tokenize(cQuery)
           df == DocFreqByTerm(qt, cOwnTokens)
       IN  \A i \in 1..Len(cDocs) :
             /\ ~SharesTerm(qt, cOwnTokens[i]) => cScore[i] = 0
             /\ (\E t \in Range(qt) \cap Range(cOwnTokens[i]) : df[t] < Len(cDocs))
                  => cScore[i] > 0

\* C25: in conversation search every message is scored from the tokens of
\* its own text, with the df, the average length and the N of the messages
\* indexed.
C25_ScoredFromOwnText ==
  cPc = "done" =>
    LET qt == tokenize(cQuery)
    IN  \A i \in 1..Len(cDocs) :
          cScore[i] = bm25Score(qt, tokenize(cDocs[i].text), AvgDocLen(cOwnTokens),
                                DocFreqByTerm(qt, cOwnTokens), Len(cDocs))

(***************************************************************************)
(* The session listing (--sessions), and both modes over files of which    *)
(* some are corrupt.                                                       *)
(***************************************************************************)
\* The locals of buildSessionIndex for one file: sf.threadName is absent, so
\* firstUserMessage starts null. status is "running", "broke" (the break of
\* the loop), "done" (the file was read to its end) or "threw".
IndexStart(source) ==
  [firstUserMessage |-> <<>>, sessionDate |-> 0, messageCount |-> 0,
   isRelevantRepo |-> (source = "claude"), status |-> "running"]

\* One line of the for await loop of buildSessionIndex.
IndexStep(source, st, line) ==
  IF line.kind \in {"blank", "invalid"} THEN st
  ELSE IF line.kind = "null" THEN [st EXCEPT !.status = "threw"]
  ELSE IF source = "codex" /\ line.type = "session_meta"
  THEN
    LET ts == IF line.payload.timestamp # <<>> THEN line.payload.timestamp
              ELSE line.timestamp
    IN  [st EXCEPT !.isRelevantRepo = @ \/ Includes(line.payload.cwd, repoName),
                   !.sessionDate = IF ts # <<>> /\ @ = 0 THEN DateOf(ts) ELSE @]
  ELSE IF source = "codex" /\ ~st.isRelevantRepo THEN st
  ELSE IF source = "codex" /\ line.type # "response_item" THEN st
  ELSE IF source = "codex" /\ line.payload.role \notin {"user", "assistant"} THEN st
  ELSE IF source # "codex" /\ line.type \notin {"user", "assistant"} THEN st
  ELSE
    LET role == IF source = "codex" THEN line.payload.role ELSE line.type
        text == IF source = "codex" THEN extractCodexText(line.payload)
                ELSE extractClaudeText(line.message)
        usable == /\ Trim(text) # <<>>
                  /\ source = "codex" =>
                       ~StartsWith(text, <<"<">>) /\ ~StartsWith(text, AgentsHeader)
        date == IF st.sessionDate = 0 /\ line.timestamp # <<>>
                THEN DateOf(line.timestamp) ELSE st.sessionDate
        label == IF role = "user" /\ st.firstUserMessage = <<>> /\ usable
                 THEN FirstLabel(text) ELSE st.firstUserMessage
    IN  [st EXCEPT !.messageCount = @ + 1,
                   !.sessionDate = date,
                   !.firstUserMessage = label,
                   !.status = IF date # 0 /\ label # <<>> THEN "broke" ELSE @]

RECURSIVE IndexFrom(_, _, _)
IndexFrom(source, st, lines) ==
  IF st.status # "running" THEN st
  ELSE IF lines = <<>> THEN [st EXCEPT !.status = "done"]
  ELSE IndexFrom(source, IndexStep(source, st, Head(lines)), Tail(lines))

IndexFile(sf) == IndexFrom(sf.source, IndexStart(sf.source), sf.lines)

\* date: sessionDate || 'unknown', 0 standing for 'unknown';
\* firstMessage: firstUserMessage || '(empty)'.
SessionEntry(sf) ==
  LET st == IndexFile(sf)
  IN  [sessionId |-> sf.sessionId, date |-> st.sessionDate, source |-> sf.source,
       firstMessage |-> IF st.firstUserMessage = <<>> THEN <<"(empty)">>
                        ELSE st.firstUserMessage]

\* a.localeCompare(b) < 0 for two dates: 'unknown' comes after every
\* YYYY-MM-DD.
DateBefore(a, b) == a # 0 /\ (b = 0 \/ a < b)

\* buildSessionIndex: no try around the loop over a file, so the first file
\* that throws ends the call, and with it main; else the entries of the
\* relevant files that hold a message, sorted by date, the latest first.
buildSessionIndex(files) ==
  LET threw == \E i \in 1..Len(files) : IndexFile(files[i]).status = "threw"
      kept == SelectSeq(files, LAMBDA sf : /\ IndexFile(sf).isRelevantRepo
                                           /\ IndexFile(sf).messageCount # 0)
      sessions == [i \in 1..Len(kept) |-> SessionEntry(kept[i])]
      rank == [i \in 1..Len(sessions) |->
                 Cardinality({j \in 1..Len(sessions) :
                                DateBefore(sessions[j].date, sessions[i].date)})]
      order == StableSortDesc(Ids(Len(sessions)), rank)
  IN  [threw |-> threw,
       sessions |-> IF threw THEN <<>> ELSE [p \in 1..Len(order) |-> sessions[order[p]]]]

\* sinceDate ? sessions.filter((s) => s.date >= sinceDate) : sessions
SinceFilter(sessions, sinceDate) ==
  SelectSeq(sessions, LAMBDA e : sinceDate = 0 \/ ~DateBefore(e.date, sinceDate))

\* main() of conversations/search.mjs with --sessions.
ConvSessions ==
  /\ cPc = "input"
  /\ LET index == buildSessionIndex(cFiles)
     IN  /\ cListed' = SinceFilter(index.sessions, cSince)
         /\ cPc' = IF index.threw THEN "failed" ELSE "listed"
  /\ UNCHANGED <<cFiles, cQuery, cK, cSince, cDocs, cOwnTokens, cTokensById, cScore, cRanked,
                 cShown, chunkVars, memVars, parseVars, semVars, pureVars, raceVars>>

\* Lines of session files, the JSON literal null among them.
CorruptClaudeLines ==
  {ClaudeLine("user", TS(1), tA), ClaudeLine("assistant", NoTimestamp, tB), NullLine}

CorruptCodexLines ==
  {CodexMeta(<<"/", "r">>, TS(3)), CodexItem("user", NoTimestamp, tA), NullLine}

InitFiles ==
  /\ PureIdle /\ RaceIdle
  /\ ChunkIdle /\ ParseIdle /\ SemIdle /\ MemIdle
  /\ cFiles \in
       {<<[sessionId |-> "s1", source |-> "claude", lines |-> l1],
          [sessionId |-> "s2", source |-> "codex", lines |-> l2]>> :
          l1 \in SeqsUpTo(CorruptClaudeLines, MaxLines),
          l2 \in SeqsUpTo(CorruptCodexLines, MaxLines)}
  /\ cQuery = <<"a">>
  /\ cK = MaxK
  /\ cSince \in SinceDates
  /\ cPc = "input"
  /\ cDocs = <<>> /\ cOwnTokens = <<>> /\ cTokensById = <<>> /\ cScore = <<>>
  /\ cRanked = <<>> /\ cShown = <<>> /\ cListed = <<>>

NextFiles == ConvSearch \/ ConvSessions

SpecFiles == InitFiles /\ [][NextFiles]_vars

\* The session entry a file gives when it is the only file listed.
EntryAlone(sf) == SinceFilter(buildSessionIndex(<<sf>>).sessions, cSince)

\* C12: a corrupt file never keeps the other files from being processed:
\* after a search every file has contributed the messages it yields alone,
\* and after a listing every file has contributed the entry it gives alone.
C12_OtherFilesStillProcessed ==
  /\ cPc = "done" =>
       \A i \in 1..Len(cFiles) :
         SelectSeq(cDocs, LAMBDA d : d.sessionId = cFiles[i].sessionId)
           = FileDocs(cFiles[i], cSince)
  /\ cPc \in {"listed", "failed"} =>
       \A i \in 1..Len(cFiles) : Range(EntryAlone(cFiles[i])) \subseteq Range(cListed)

(***************************************************************************)
(* One session file parsed line by line.                                   *)
(***************************************************************************)
\* A text whose first LABELCHARS characters are white space.
BlankLead == [i \in 1..LABELCHARS |-> SP] \o <<"b">>

ParseClaudeLines ==
  {ClaudeLine("user", NoTimestamp, tA), ClaudeLine("user", TS(1), tA),
   ClaudeLine("assistant", TS(3), tB), ClaudeLine("summary", TS(1), tA),
   ClaudeLine("user", TS(3), <<SP>>), ClaudeLine("user", TS(3), BlankLead),
   InvalidLine, NullLine}

ParseCodexLines ==
  {CodexMeta(<<"/", "r">>, NoTimestamp), CodexMeta(<<"/", "r">>, TS(1)),
   CodexMeta(<<"/", "x">>, TS(3)), CodexItem("user", NoTimestamp, tA),
   CodexItem("assistant", TS(1), tB), CodexItem("user", TS(3), tB),
   CodexItem("user", TS(3), BlankLead),
   CodexItem("developer", TS(1), tA), InvalidLine, NullLine}

InitParse ==
  /\ PureIdle /\ RaceIdle
  /\ ChunkIdle /\ MemIdle /\ ConvIdle /\ SemIdle
  /\ pSource \in {"claude", "codex"}
  /\ pLines \in SeqsUpTo(IF pSource = "codex" THEN ParseCodexLines ELSE ParseClaudeLines,
                         MaxLines)
  /\ pSince \in SinceDates
  /\ pState = ParserStart

\* The body of the for await loop, for the next line of the file.
ParseLine ==
  /\ pState.status = "running"
  /\ pState.read < Len(pLines)
  /\ pState' = ParserStep(pSource, pState, pLines[pState.read + 1], pSince)
  /\ UNCHANGED <<pSource, pLines, pSince, chunkVars, memVars, convVars, semVars,
                 pureVars, raceVars>>

\* The end of the file: the generator completes.
ParseEnd ==
  /\ pState.status = "running"
  /\ pState.read = Len(pLines)
  /\ pState' = [pState EXCEPT !.status = "done"]
  /\ UNCHANGED <<pSource, pLines, pSince, chunkVars, memVars, convVars, semVars,
                 pureVars, raceVars>>

NextParse == ParseLine \/ ParseEnd

SpecParse == InitParse /\ [][NextParse]_vars

\* C8: with a cutoff set, a session whose date is before the cutoff yields
\* no message at all, from either parser, and its parsing has stopped at the
\* line that gave the date.
C8_SessionBeforeCutoffYieldsNothing ==
  (pSince # 0 /\ pState.sessionDate # 0 /\ pState.sessionDate < pSince) =>
    /\ pState.out = <<>>
    /\ pState.status = "returned"

\* The lines of the file that are JSON records of an expected shape.
WellFormedLines == SelectSeq(pLines, LAMBDA l : l.kind = "obj")

\* C11: a line that is not valid JSON, or that is the JSON literal null, is
\* skipped without raising: the parser never throws, and once it has ended
\* it has yielded the messages it yields for the file without those lines.
C11_MalformedLinesSkipped ==
  /\ pState.status # "threw"
  /\ pState.status # "running" =>
       pState.out = ParseSession(pSource, WellFormedLines, pSince).out

\* The places in the messages yielded of those of the user.
UserPlaces(out) == {j \in 1..Len(out) : out[j].type = "user"}

\* C24: firstUserMessage is the first 120 characters, white space collapsed
\* and trimmed, of the first message of the user yielded (null before it),
\* and every message yielded from there on carries that one value.
C24_LabelSetOnce ==
  LET out == pState.out
  IN  \A j \in 1..Len(out) :
        IF \E f \in UserPlaces(out) : f <= j
        THEN LET first == CHOOSE f \in UserPlaces(out) : \A g \in UserPlaces(out) : f <= g
             IN  out[j].firstUserMessage =
                   Trim(CollapseWhite(SubSeq(out[first].text, 1,
                                             IF Len(out[first].text) < 120
                                             THEN Len(out[first].text) ELSE 120)))
        ELSE out[j].firstUserMessage = <<>>

\* The line is a session_meta whose cwd holds the repo name somewhere.
MetaOfRepo(line) ==
  /\ line.kind = "obj"
  /\ line.type = "session_meta"
  /\ \E i \in 1..Len(line.payload.cwd) :
       i + Len(repoName) - 1 <= Len(line.payload.cwd)
       /\ SubSeq(line.payload.cwd, i, i + Len(repoName) - 1) = repoName

\* C17: parseCodexSession has yielded a message only when a session_meta
\* line whose cwd contains the repo name is among the lines read; a file
\* without such a line yields nothing.
C17_CodexNeedsRelevantMeta ==
  (pSource = "codex" /\ pState.out # <<>>) =>
    \E i \in 1..pState.read : MetaOfRepo(pLines[i])

\* A Codex file with a user message and no session_meta of the repo has
\* been read to its end.
C17_IrrelevantCodexFileRead ==
  /\ pSource = "codex"
  /\ pSince = 0
  /\ pState.status = "done"
  /\ pState.out = <<>>
  /\ \E i \in 1..Len(pLines) : pLines[i] = CodexItem("user", NoTimestamp, tA)
  /\ \E i \in 1..Len(pLines) : pLines[i] = CodexMeta(<<"/", "x">>, TS(3))

(***************************************************************************)
(* Semantic memory search, request by request, over several invocations    *)
(* that share the cache files.                                             *)
(***************************************************************************)
\* provider !== 'openai' throws.
ProviderAlwaysSupported(provider) == TRUE

ProviderSupported(provider) == provider = "openai"

\* missing: one {key, text} for every chunk whose key the cache lacks, in
\* the order of chunks.
Missing(chunkTexts, cfg, cache) ==
  SelectSeq([i \in 1..Len(chunkTexts) |->
               [key |-> ChunkKey(cfg, chunkTexts[i]),
                text |-> sanitizeForEmbeddings(chunkTexts[i])]],
            LAMBDA m : m.key \notin DOMAIN cache)

BATCHSIZE == 96

\* Everything still missing sent in one request.
BatchOfAllTheRest(missing, i) == Slice(missing, i, Len(missing))

\* missing.slice(i, i + batchSize)
Batch(missing, i) == Slice(missing, i, i + BATCHSIZE)

\* A request to the embeddings provider, as embedOpenAI sends it.
Request(kind, inputs) == [kind |-> kind, inputs |-> inputs]

BatchRequest(missing, i) ==
  Request("chunks", [j \in 1..Len(Batch(missing, i)) |-> Batch(missing, i)[j].text])

\* What the provider answers is not the program's to decide: a response is
\* one of Variants, and gives every input of the request a vector.
Variants == {"v1", "v2"}

EmbedVector(variant, text) ==
  IF variant = "v2" THEN <<-1, 0, 0>>
  ELSE IF "a" \in Range(text) THEN <<1, 0, 0>>
  ELSE <<7, 6, 6>>

embedOpenAI(variant, inputs) == [j \in 1..Len(inputs) |-> EmbedVector(variant, inputs[j])]

\* cache[batch[j].key] = {model, dimensions, b64} for j = 0, 1, ...: a later
\* j overwrites an earlier one of the same key.
StoreBatch(cache, batch, vectors, cfg) ==
  LET keys == {batch[j].key : j \in 1..Len(batch)}
      Last(key) == CHOOSE j \in 1..Len(batch) :
                     /\ batch[j].key = key
                     /\ \A m \in (j + 1)..Len(batch) : batch[m].key # key
  IN  [key \in DOMAIN cache \cup keys |->
         IF key \in keys THEN CacheEntry(cfg, vectors[Last(key)]) ELSE cache[key]]

StoreQuery(cache, cfg, query, vec) ==
  [key \in DOMAIN cache \cup {QueryKey(cfg, query)} |->
     IF key = QueryKey(cfg, query) THEN CacheEntry(cfg, vec) ELSE cache[key]]

\* The large corpus: more chunks than one batch holds.
Big == [i \in 1..(BATCHSIZE + ExtraChunks) |-> tA]

SemCorpora == {<<tA>>, <<tA, tB>>, Big}

Providers == {"openai", "other"}

\* main() from the query embedding on, up to its next await or its end:
\* cache is the cache getEmbeddingsForChunks returned, files the cache files.
QueryPart(bm, cache, files, writes) ==
  /\ sCache' = cache
  /\ cacheFile' = files
  /\ sWrites' = writes
  /\ IF QueryKey(mCfg, mQuery) \in DOMAIN cache
     THEN /\ RankSemantic(bm, cache)
          /\ mPc' = "done"
          /\ UNCHANGED sRequests
     ELSE IF ~sApiKey
     THEN /\ NoRanking
          /\ mPc' = "failed"
          /\ UNCHANGED sRequests
     ELSE /\ NoRanking
          /\ mPc' = "awaitQuery"
          /\ sRequests' = Append(sRequests, Request("query", <<sanitizeForEmbeddings(mQuery)>>))

semInputs == <<mChunks, mQuery, mK, mSemantic, mCfg, sApiKey, sReindex, sRun, sPrev, sFileAtStart>>
otherVars == <<chunkVars, convVars, parseVars, pureVars, raceVars>>

InitSem ==
  /\ PureIdle /\ RaceIdle
  /\ ChunkIdle /\ ConvIdle /\ ParseIdle
  /\ mChunks \in SemCorpora
  /\ mQuery = <<"a">>
  /\ mK = MaxK
  /\ mSemantic = TRUE
  /\ mCfg \in {[DefaultCfg EXCEPT !.provider = p] : p \in Providers}
  /\ cacheFile = <<>>
  /\ mPc = "input"
  /\ mBm25 = <<>> /\ mCosine = <<>> /\ mCandidates = <<>> /\ mCombined = <<>>
  /\ mRanked = <<>> /\ mShown = <<>>
  /\ sApiKey \in BOOLEAN
  /\ sReindex \in BOOLEAN
  /\ sCache = <<>> /\ sMissing = <<>> /\ sNext = 0 /\ sRequests = <<>> /\ sWrites = 0
  /\ sNotice = FALSE /\ sFetched = FALSE /\ sRun = 1 /\ sPrev = NoPrev
  /\ sFileAtStart = <<>>

\* main() up to its first await: BM25, then getEmbeddingsForChunks up to
\* the first request, or all of it when nothing is missing.
SemStart ==
  /\ mPc = "input"
  /\ mBm25' = MemBm25(mChunks, mQuery)
  /\ LET cache0 == LoadCache(sReindex, cacheFile, CachePath(mCfg))
         missing == Missing(mChunks, mCfg, cache0)
     IN  /\ sMissing' = missing
         /\ IF missing = <<>>
            THEN /\ sFetched' = TRUE
                 /\ QueryPart(mBm25', cache0, cacheFile, sWrites)
                 /\ UNCHANGED <<sNext, sNotice>>
            ELSE IF ~ProviderSupported(mCfg.provider) \/ ~sApiKey
            THEN /\ mPc' = "failed"
                 /\ sCache' = cache0
                 /\ NoRanking
                 /\ UNCHANGED <<cacheFile, sNext, sRequests, sWrites, sNotice, sFetched>>
            ELSE /\ sNotice' = TRUE
                 /\ sRequests' = Append(sRequests, BatchRequest(missing, 0))
                 /\ sCache' = cache0
                 /\ mPc' = "awaitBatch"
                 /\ NoRanking
                 /\ UNCHANGED <<cacheFile, sNext, sWrites, sFetched>>
  /\ UNCHANGED <<semInputs, otherVars>>

\* The response to the batch in flight arrives: its vectors enter the
\* cache; then the next batch is requested, or, after the last batch, the
\* cache is written and main() goes on to the query embedding.
SemBatchOk ==
  /\ mPc = "awaitBatch"
  /\ \E variant \in Variants :
       LET batch == Batch(sMissing, sNext)
           vectors == embedOpenAI(variant, [j \in 1..Len(batch) |-> batch[j].text])
           cache1 == StoreBatch(sCache, batch, vectors, mCfg)
       IN  /\ sNext' = sNext + BATCHSIZE
           /\ IF sNext + BATCHSIZE < Len(sMissing)
              THEN /\ sCache' = cache1
                   /\ sRequests' = Append(sRequests, BatchRequest(sMissing, sNext + BATCHSIZE))
                   /\ mPc' = "awaitBatch"
                   /\ NoRanking
                   /\ UNCHANGED <<cacheFile, sWrites, sFetched>>
              ELSE /\ sFetched' = TRUE
                   /\ QueryPart(mBm25, cache1, WriteJson(cacheFile, CachePath(mCfg), cache1),
                                sWrites + 1)
  /\ UNCHANGED <<semInputs, otherVars, mBm25, sMissing, sNotice>>

\* A failed batch answered with the keyword ranking instead of an error.
SemBatchFailKeywordFallback ==
  /\ mPc = "awaitBatch"
  /\ mPc' = "failed"
  /\ mRanked' = KeywordRanked(mBm25)
  /\ mShown' = Slice(mRanked', 0, TopCount(mK))
  /\ UNCHANGED <<semInputs, otherVars, cacheFile, mBm25, mCosine, mCandidates, mCombined,
                 sCache, sMissing, sNext, sRequests, sWrites, sNotice, sFetched>>

\* The request of the batch in flight fails: embedOpenAI throws, main() ends.
SemBatchFail ==
  /\ mPc = "awaitBatch"
  /\ mPc' = "failed"
  /\ NoRanking
  /\ UNCHANGED <<semInputs, otherVars, cacheFile, mBm25, sCache, sMissing, sNext, sRequests,
                 sWrites, sNotice, sFetched>>

\* The query's vector arrives: it enters the cache, the cache is written,
\* the chunks are ranked.
SemQueryOk ==
  /\ mPc = "awaitQuery"
  /\ \E variant \in Variants :
       LET vec == embedOpenAI(variant, <<sanitizeForEmbeddings(mQuery)>>)
           cache1 == StoreQuery(sCache, mCfg, mQuery, vec[1])
       IN  /\ sCache' = cache1
           /\ cacheFile' = WriteJson(cacheFile, CachePath(mCfg), cache1)
           /\ RankSemantic(mBm25, cache1)
  /\ sWrites' = sWrites + 1
  /\ mPc' = "done"
  /\ UNCHANGED <<semInputs, otherVars, mBm25, sMissing, sNext, sRequests, sNotice, sFetched>>

SemQueryFail ==
  /\ mPc = "awaitQuery"
  /\ mPc' = "failed"
  /\ NoRanking
  /\ UNCHANGED <<semInputs, otherVars, cacheFile, mBm25, sCache, sMissing, sNext, sRequests,
                 sWrites, sNotice, sFetched>>

\* The process is interrupted while a request is in flight.
Interrupt ==
  /\ mPc \in {"awaitBatch", "awaitQuery"}
  /\ mPc' = "interrupted"
  /\ NoRanking
  /\ UNCHANGED <<semInputs, otherVars, cacheFile, mBm25, sCache, sMissing, sNext, sRequests,
                 sWrites, sNotice, sFetched>>

\* The next invocation starts, with the cache files the last one left.
NewRun ==
  /\ mPc \in {"done", "failed", "interrupted"}
  /\ sRun < MaxRuns
  /\ mChunks' \in SemCorpora
  /\ mCfg' \in {[DefaultCfg EXCEPT !.provider = p] : p \in Providers}
  /\ sApiKey' \in BOOLEAN
  /\ sReindex' \in BOOLEAN
  /\ sRun' = sRun + 1
  /\ sPrev' = [chunks |-> mChunks, cfg |-> mCfg, fetched |-> sFetched, done |-> mPc = "done",
               asked |-> sRequests # <<>>, ranked |-> mRanked]
  /\ sFileAtStart' = cacheFile
  /\ mPc' = "input"
  /\ mBm25' = <<>> /\ mCosine' = <<>> /\ mCandidates' = <<>> /\ mCombined' = <<>>
  /\ mRanked' = <<>> /\ mShown' = <<>>
  /\ sCache' = <<>> /\ sMissing' = <<>> /\ sNext' = 0 /\ sRequests' = <<>> /\ sWrites' = 0
  /\ sNotice' = FALSE /\ sFetched' = FALSE
  /\ UNCHANGED <<mQuery, mK, mSemantic, cacheFile, otherVars>>

NextSem ==
  \/ SemStart \/ SemBatchOk \/ SemBatchFail \/ SemQueryOk \/ SemQueryFail
  \/ Interrupt \/ NewRun

SpecSem == InitSem /\ [][NextSem]_vars

(***************************************************************************)
(* Properties of the embedding cache and of the provider requests, over    *)
(* SpecSem.                                                                *)
(***************************************************************************)
\* This invocation needs an embedding the cache it starts from lacks.
EmbeddingNeeded ==
  ~(NeededKeys(mCfg, mChunks, mQuery)
      \subseteq DOMAIN LoadCache(sReindex, sFileAtStart, CachePath(mCfg)))

\* C2: an invocation whose provider is not openai, or whose API key is
\* absent, sends no request to the provider and writes no cache file; when
\* it needs an embedding it fails.
C2_NoRequestWithoutProviderOrKey ==
  (mCfg.provider # "openai" \/ ~sApiKey) =>
    /\ sRequests = <<>>
    /\ sWrites = 0
    /\ (mPc # "input" /\ EmbeddingNeeded) => mPc = "failed"

\* An invocation that needed an embedding has failed for its provider or
\* for its missing key, with no request sent.
C2_FailedBeforeRequest ==
  /\ mCfg.provider # "openai" \/ ~sApiKey
  /\ EmbeddingNeeded
  /\ mPc = "failed"
  /\ sRequests = <<>>

\* The invocation repeats the fetch of the one before: the same chunks,
\* the same provider, model and dimensions, no reindex, and the one before
\* has returned from getEmbeddingsForChunks.
RepeatsFetch ==
  /\ sRun > 1
  /\ sPrev.fetched
  /\ ~sReindex
  /\ sPrev.chunks = mChunks
  /\ sPrev.cfg = mCfg

\* C3: the second of two fetches in a row of the same chunks under the same
\* provider, model and dimensions, without reindex, the first having
\* succeeded, sends no request for chunk embeddings.
C3_SecondFetchSendsNothing ==
  RepeatsFetch => \A r \in 1..Len(sRequests) : sRequests[r].kind # "chunks"

\* Such a second fetch has returned.
C3_SecondFetchReturned ==
  RepeatsFetch /\ sFetched /\ sPrev.chunks = Big

\* C4: a step of an invocation without reindex keeps every cache file, every
\* key of it, and the entry under every key.
C4_CacheOnlyGrows ==
  [][~sReindex =>
       \A path \in DOMAIN cacheFile :
         /\ path \in DOMAIN cacheFile'
         /\ \A key \in DOMAIN cacheFile[path] :
              /\ key \in DOMAIN cacheFile'[path]
              /\ cacheFile'[path][key] = cacheFile[path][key]]_vars

\* An invocation without reindex has written a cache file that held
\* entries when it started, and has added an entry to it.
C4_WroteOverEntries ==
  /\ ~sReindex
  /\ sWrites > 0
  /\ CachePath(mCfg) \in DOMAIN sFileAtStart
  /\ DOMAIN sFileAtStart[CachePath(mCfg)] # {}
  /\ DOMAIN cacheFile[CachePath(mCfg)] # DOMAIN sFileAtStart[CachePath(mCfg)]

\* The keys whose batches have completed in this invocation.
CompletedKeys ==
  {sMissing[j].key : j \in 1..(IF sNext < Len(sMissing) THEN sNext ELSE Len(sMissing))}

\* C5: when an invocation has failed or has been interrupted after batches
\* completed, the entries of the completed batches are in the cache file.
C5_CompletedBatchesPersisted ==
  mPc \in {"failed", "interrupted"} =>
    CompletedKeys \subseteq DOMAIN ReadCache(cacheFile, CachePath(mCfg))

\* C13: an invocation that has failed, a failed embeddings request for a
\* chunk batch or for the query included, has ranked nothing and printed no
\* result.
C13_FailedRequestShowsNothing ==
  mPc = "failed" => mRanked = <<>> /\ mShown = <<>>

\* The request for the query's embedding has failed, after the requests for
\* the chunks succeeded.
C13_QueryRequestFailed ==
  /\ mPc = "failed"
  /\ sRequests # <<>>
  /\ sRequests[Len(sRequests)].kind = "query"
  /\ Len(sRequests) > 1
\* The texts of the requests for chunk embeddings, in the order sent.
RECURSIVE ChunkInputs(_)
ChunkInputs(requests) ==
  IF requests = <<>> THEN <<>>
  ELSE (IF Head(requests).kind = "chunks" THEN Head(requests).inputs ELSE <<>>)
         \o ChunkInputs(Tail(requests))

\* C18: an invocation with --reindex that has ended well has requested the
\* embedding of every chunk and then of the query, and the cache file it
\* leaves holds the entries of this invocation and no other: the entry of
\* every chunk and of the query, equal to the cache built in memory from
\* the empty one.
C18_ReindexRebuilds ==
  (sReindex /\ mPc = "done") =>
    /\ ChunkInputs(sRequests) = [i \in 1..Len(mChunks) |-> sanitizeForEmbeddings(mChunks[i])]
    /\ sRequests[Len(sRequests)] = Request("query", <<sanitizeForEmbeddings(mQuery)>>)
    /\ DOMAIN ReadCache(cacheFile, CachePath(mCfg)) = NeededKeys(mCfg, mChunks, mQuery)
    /\ ReadCache(cacheFile, CachePath(mCfg)) = sCache

\* An invocation with --reindex has ended well over a cache file that held
\* an entry it does not need.
C18_RebuiltOverOldEntries ==
  /\ sReindex
  /\ mPc = "done"
  /\ CachePath(mCfg) \in DOMAIN sFileAtStart
  /\ ~(DOMAIN sFileAtStart[CachePath(mCfg)] \subseteq NeededKeys(mCfg, mChunks, mQuery))

\* The invocation repeats the one before, which ended well: the same query,
\* the same chunks, the same provider, model and dimensions, no reindex, and
\* the cache file as the one before left it.
RepeatsRun ==
  /\ sRun > 1
  /\ sPrev.done
  /\ ~sReindex
  /\ sPrev.chunks = mChunks
  /\ sPrev.cfg = mCfg

ChunkRequests == Len(SelectSeq(sRequests, LAMBDA r : r.kind = "chunks"))

\* The request for the query's embedding has been answered.
QueryAnswered ==
  /\ mPc = "done"
  /\ sRequests # <<>>
  /\ sRequests[Len(sRequests)].kind = "query"

C14_NoticeBeforeEveryRequest ==
  sRequests # <<>> => sNotice

\* C26: within one invocation no cache key is sent to the provider twice:
\* the provider, model and dimensions being those of the invocation, the
\* sanitized texts of all its requests for chunk embeddings are distinct
\* (the key of the query is the key of no chunk).
C26_NoTextSentTwice ==
  Cardinality(Range(ChunkInputs(sRequests))) = Len(ChunkInputs(sRequests))

(***************************************************************************)
(* Invocations of semantic memory search running at the same time on one   *)
(* cache file.  Each is a process of its own: what one does between two of *)
(* its awaits is one step, but writeJson is fs.writeFileSync, which opens  *)
(* the file with flag 'w' (the file is truncated) and writes the text in a *)
(* call of its own, so that another process can act in between.            *)
(***************************************************************************)
\* The text of a file is a sequence of cells: a brace, a comma, a newline,
\* the key of a property or the value of a property.
Cell(kind, key, entry) == [kind |-> kind, key |-> key, entry |-> entry]
NoEntry == [model |-> "", dimensions |-> "", b64 |-> <<>>]
Punct(kind) == Cell(kind, <<>>, NoEntry)

\* An object in memory is its properties in their order: JSON.parse and
\* assignment both put a new key last, and the keys are no array indices.
RECURSIVE Properties(_)
Properties(props) ==
  IF props = <<>> THEN <<>>
  ELSE <<Cell("key", Head(props).key, NoEntry), Cell("value", <<>>, Head(props).entry)>>
         \o (IF Tail(props) = <<>> THEN <<>> ELSE <<Punct(",")>> \o Properties(Tail(props)))

\* JSON.stringify(obj)
Stringify(props) == <<Punct("{")>> \o Properties(props) \o <<Punct("}")>>

\* `${JSON.stringify(obj)}\n`
FileText(props) == Stringify(props) \o <<Punct(NL)>>

RECURSIVE DropTrailingNL(_)
DropTrailingNL(text) ==
  IF text # <<>> /\ text[Len(text)].kind = NL THEN DropTrailingNL(SubSeq(text, 1, Len(text) - 1))
  ELSE text

\* readJsonIfExists(p) ?? {}: the object the text is the JSON of; null, and
\* so the empty object, when the file does not exist or JSON.parse throws.
ReadJson(file) ==
  LET text == DropTrailingNL(file.text)
      props == [i \in 1..(Len(text) \div 3) |->
                  [key |-> text[3 * i - 1].key, entry |-> text[3 * i].entry]]
  IN  IF file.exists /\ Stringify(props) = text THEN props ELSE <<>>

\* open(p, 'w'): the file exists and is empty.
OpenTruncate(file) == [exists |-> TRUE, text |-> <<>>]

\* write(fd, text) at offset 0 of a file opened before: the cells of text
\* replace the first Len(text) cells of the file, what lies beyond stays.
WriteAtZero(file, text) ==
  [exists |-> TRUE,
   text |-> text \o SubSeq(file.text, Len(text) + 1, Len(file.text))]

AsCache(props) ==
  [key \in {props[i].key : i \in 1..Len(props)} |->
     props[CHOOSE i \in 1..Len(props) : props[i].key = key].entry]

\* cache[key] = entry
SetProp(props, key, entry) ==
  IF \E i \in 1..Len(props) : props[i].key = key
  THEN [i \in 1..Len(props) |-> IF props[i].key = key THEN [key |-> key, entry |-> entry]
                                 ELSE props[i]]
  ELSE Append(props, [key |-> key, entry |-> entry])

RECURSIVE SetProps(_, _, _)
SetProps(props, batch, vectors) ==
  IF batch = <<>> THEN props
  ELSE SetProps(SetProp(props, Head(batch).key, CacheEntry(DefaultCfg, Head(vectors))),
                Tail(batch), Tail(vectors))

RaceQuery == <<"a">>
RaceCorpora == {<<tA>>, <<tA, tB>>}
Invocations == 1..MaxInvocations

InitRace ==
  /\ ChunkIdle /\ MemIdle /\ ConvIdle /\ ParseIdle /\ SemIdle /\ PureIdle
  /\ rFile \in {NoFile} \cup
       {[exists |-> TRUE,
         text |-> FileText(SetProps(<<>>, Missing(c, DefaultCfg, <<>>),
                                    embedOpenAI("v1", c)))] : c \in {<<tB>>}}
  /\ rInv \in [Invocations -> {[pc |-> "input", chunks |-> c, reindex |-> r, cache |-> <<>>,
                                missing |-> <<>>] : c \in RaceCorpora, r \in BOOLEAN}]
  /\ rWriters = <<>>

\* main() from the query embedding on, up to its next await or its end.
RaceQueryPart(inv, cache) ==
  [inv EXCEPT !.cache = cache,
              !.pc = IF QueryKey(DefaultCfg, RaceQuery) \in DOMAIN AsCache(cache)
                     THEN "done" ELSE "awaitQuery"]

raceOthers == <<chunkVars, memVars, convVars, parseVars, semVars, pureVars>>

\* main() up to its first await: the cache file is read, missing is built.
RaceStart ==
  \E p \in Invocations :
    /\ rInv[p].pc = "input"
    /\ LET cache0 == IF rInv[p].reindex THEN <<>> ELSE ReadJson(rFile)
           missing == Missing(rInv[p].chunks, DefaultCfg, AsCache(cache0))
       IN  rInv' = [rInv EXCEPT ![p] =
                      IF missing = <<>> THEN RaceQueryPart([@ EXCEPT !.missing = missing], cache0)
                      ELSE [@ EXCEPT !.cache = cache0, !.missing = missing, !.pc = "awaitBatch"]]
    /\ UNCHANGED <<rFile, rWriters>>
    /\ UNCHANGED raceOthers

\* The vectors of the batch arrive (the corpora here fit one batch): they
\* enter the cache, and writeJson opens the file.
RaceBatchOk ==
  \E p \in Invocations :
    /\ rInv[p].pc = "awaitBatch"
    /\ \E variant \in Variants :
         LET batch == Batch(rInv[p].missing, 0)
             vectors == embedOpenAI(variant, [j \in 1..Len(batch) |-> batch[j].text])
         IN  rInv' = [rInv EXCEPT ![p].cache = SetProps(@, batch, vectors),
                                  ![p].pc = "writeBatch"]
    /\ rFile' = OpenTruncate(rFile)
    /\ UNCHANGED rWriters
    /\ UNCHANGED raceOthers

\* writeJson writes the text and returns; main() goes on to its next await
\* or its end.
RaceWrite ==
  \E p \in Invocations :
    /\ rInv[p].pc \in {"writeBatch", "writeQuery"}
    /\ rFile' = WriteAtZero(rFile, FileText(rInv[p].cache))
    /\ rWriters' = Append(rWriters, p)
    /\ rInv' = [rInv EXCEPT ![p] = IF @.pc = "writeBatch" THEN RaceQueryPart(@, @.cache)
                                   ELSE [@ EXCEPT !.pc = "done"]]
    /\ UNCHANGED raceOthers

\* The vector of the query arrives: it enters the cache, writeJson opens
\* the file.
RaceQueryOk ==
  \E p \in Invocations :
    /\ rInv[p].pc = "awaitQuery"
    /\ \E variant \in Variants :
         LET vec == embedOpenAI(variant, <<sanitizeForEmbeddings(RaceQuery)>>)
         IN  rInv' = [rInv EXCEPT ![p].cache = SetProp(@, QueryKey(DefaultCfg, RaceQuery),
                                                      CacheEntry(DefaultCfg, vec[1])),
                                  ![p].pc = "writeQuery"]
    /\ rFile' = OpenTruncate(rFile)
    /\ UNCHANGED rWriters
    /\ UNCHANGED raceOthers

\* A request fails: embedOpenAI throws and the invocation ends.
RaceRequestFail ==
  \E p \in Invocations :
    /\ rInv[p].pc \in {"awaitBatch", "awaitQuery"}
    /\ rInv' = [rInv EXCEPT ![p].pc = "failed"]
    /\ UNCHANGED <<rFile, rWriters>>
    /\ UNCHANGED raceOthers

NextRace == RaceStart \/ RaceBatchOk \/ RaceWrite \/ RaceQueryOk \/ RaceRequestFail

SpecRace == InitRace /\ [][NextRace]_vars

RaceEnded == \A p \in Invocations : rInv[p].pc \in {"done", "failed"}

\* C21: when invocations race on the cache file, the file they leave is
\* exactly the cache in memory of the invocation whose write came last.
C21_FileIsLastWritersCache ==
  RaceEnded /\ rWriters # <<>> => rFile.text = FileText(rInv[rWriters[Len(rWriters)]].cache)

(***************************************************************************)
(* chunkMarkdown applied to every bounded input.                           *)
(***************************************************************************)
InitChunk ==
  /\ PureIdle /\ RaceIdle
  /\ MemIdle
  /\ ConvIdle
  /\ ParseIdle
  /\ SemIdle
  /\ content \in SeqsUpTo(Alphabet, MaxContentLen)
  /\ maxChars = 0
  /\ minChars = 0
  /\ chunks = <<>>
  /\ chunkPc = "input"

RunChunk ==
  /\ chunkPc = "input"
  /\ \E mx \in 1..MaxChunkChars, mn \in 0..MaxMinChars :
       /\ maxChars' = mx
       /\ minChars' = mn
       /\ chunks' = chunkMarkdown(content, mx, mn)
  /\ chunkPc' = "done"
  /\ UNCHANGED <<content, memVars, convVars, parseVars, semVars, pureVars, raceVars>>

NextChunk == RunChunk

SpecChunk == InitChunk /\ [][NextChunk]_vars

\* C1: chunkMarkdown never emits a chunk longer than maxChars unless the
\* chunk is a slice of a single paragraph that alone exceeds maxChars; a
\* chunk merged from paragraphs of at most maxChars each is at most maxChars.
C1_ChunkWithinMax ==
  chunkPc = "done" =>
    \A i \in 1..Len(chunks) : Len(chunks[i].text) > maxChars => chunks[i].hard

\* The characters of s that are no white space, in order.
NonWhite(s) == SelectSeq(s, LAMBDA c : ~IsWhite(c))

\* The texts of the chunks from the i-th on, concatenated in idx order.
RECURSIVE ConcatTexts(_, _)
ConcatTexts(cs, i) == IF i > Len(cs) THEN <<>> ELSE cs[i].text \o ConcatTexts(cs, i + 1)

\* C15: the chunk texts concatenated in idx order hold the characters of the
\* cleaned content that are no white space, each once and in their order;
\* and cleaned content that is empty or all white space yields no chunk.
C15_ChunksPreserveCleaned ==
  chunkPc = "done" =>
    /\ NonWhite(ConcatTexts(chunks, 1)) = NonWhite(Cleaned(content))
    /\ NonWhite(Cleaned(content)) = <<>> => chunks = <<>>

\* A hard split and two kinds of character among several chunks.
C15_SplitIntoSeveralChunks ==
  /\ chunkPc = "done"
  /\ Len(chunks) >= 3
  /\ \E i \in 1..Len(chunks) : chunks[i].hard
  /\ {"a", TICK} \subseteq Range(NonWhite(Cleaned(content)))

(***************************************************************************)
(* tokenize applied to every bounded text, and again to its own output.    *)
(***************************************************************************)
TokenizeAlphabet == {"a", "B", "_", "0", SP, "-"}

InitTokenize ==
  /\ ChunkIdle /\ MemIdle /\ ConvIdle /\ ParseIdle /\ SemIdle /\ RaceIdle
  /\ pureIn \in SeqsUpTo(TokenizeAlphabet, MaxTextLen)
  /\ pureOut = <<>>
  /\ purePc = "input"

\* tokenize(text), and tokenize of its tokens joined by spaces.
RunTokenize ==
  /\ purePc = "input"
  /\ pureOut' = [tokens |-> tokenize(pureIn), again |-> tokenize(JoinSP(tokenize(pureIn)))]
  /\ purePc' = "done"
  /\ UNCHANGED <<pureIn, chunkVars, memVars, convVars, parseVars, semVars, raceVars>>

NextTokenize == RunTokenize

SpecTokenize == InitTokenize /\ [][NextTokenize]_vars

\* C16: tokenizing the tokens of a text joined by spaces gives the tokens
\* again, and every token is a non-empty string of lowercase letters, digits
\* and underscores.
C16_TokenizeIdempotent ==
  purePc = "done" =>
    /\ pureOut.again = pureOut.tokens
    /\ \A n \in 1..Len(pureOut.tokens) :
         /\ pureOut.tokens[n] # <<>>
         /\ Range(pureOut.tokens[n]) \subseteq TokenChars

\* A text with an upper-case letter and a separator has given two tokens.
C16_TwoTokens ==
  /\ purePc = "done"
  /\ Len(pureOut.tokens) = 2
  /\ {"B", "-"} \subseteq Range(pureIn)

(***************************************************************************)
(* The semantic branch of main() from the candidate union on, applied to   *)
(* the c.bm25 and c.cosine of the chunks of small and of large corpora.    *)
(***************************************************************************)
\* Score patterns of a large corpus, by the place i of the chunk among n.
Patterns == {"equal", "falling", "rising", "halves"}

Pattern(name, n) ==
  [i \in 1..n |->
     IF name = "equal" THEN 1
     ELSE IF name = "falling" THEN n - i
     ELSE IF name = "rising" THEN i
     ELSE IF 2 * i <= n THEN 0 ELSE 1]

\* Corpora of exactly one window, just over one window, just over two.
LargeSizes ==
  {TOPKEYWORD, TOPKEYWORD + ExtraChunks, TOPKEYWORD + TOPSEMANTIC + ExtraChunks}

SmallBm25 == {0, 1, 2}
SmallCosine == {-1, 0, 1}

RankInputs ==
  {[bm |-> b, cos |-> c, k |-> k] :
     b \in UNION {[1..n -> SmallBm25] : n \in 1..MaxDocs},
     c \in UNION {[1..n -> SmallCosine] : n \in 1..MaxDocs},
     k \in {0, MaxK}}
  \cup
  {[bm |-> Pattern(pb, n), cos |-> Pattern(pc, n), k |-> k] :
     pb \in Patterns, pc \in Patterns, n \in LargeSizes, k \in {0, MaxK}}

InitRank ==
  /\ ChunkIdle /\ MemIdle /\ ConvIdle /\ ParseIdle /\ SemIdle /\ RaceIdle
  /\ pureIn \in {in \in RankInputs : Len(in.bm) = Len(in.cos)}
  /\ pureOut = <<>>
  /\ purePc = "input"

\* The candidate union, the two normalisations, the fusion, the sort and
\* the slice printed.
RunRank ==
  /\ purePc = "input"
  /\ LET cands == Candidates(pureIn.bm, pureIn.cos)
         combined == Combined(cands, pureIn.bm, pureIn.cos)
         ranked == SemanticRanked(cands, pureIn.bm, pureIn.cos, combined)
     IN  pureOut' = [candidates |-> cands,
                     normBm25 |-> normalizeScores(cands, pureIn.bm),
                     normCos |-> normalizeScores(cands, pureIn.cos),
                     combined |-> combined,
                     ranked |-> ranked,
                     shown |-> Slice(ranked, 0, TopCount(pureIn.k))]
  /\ purePc' = "done"
  /\ UNCHANGED <<pureIn, chunkVars, memVars, convVars, parseVars, semVars, raceVars>>

NextRank == RunRank

SpecRank == InitRank /\ [][NextRank]_vars

\* The chunks fewer than window chunks come before in descending score,
\* discovery order deciding between equal scores.
TopOf(score, window) ==
  {i \in DOMAIN score :
     Cardinality({j \in DOMAIN score :
                    score[j] > score[i] \/ (score[j] = score[i] /\ j < i)}) < window}

\* C22: the candidates are the first 80 chunks by BM25 together with the
\* first 80 by cosine, each once: at most 160, all the chunks of a corpus of
\* at most 80, and nothing but candidates is printed.
C22_CandidatesAreUnionOfWindows ==
  purePc = "done" =>
    LET cands == pureOut.candidates
    IN  /\ Range(cands) = TopOf(pureIn.bm, 80) \cup TopOf(pureIn.cos, 80)
        /\ Cardinality(Range(cands)) = Len(cands)
        /\ Len(cands) <= 160
        /\ Len(pureIn.bm) <= 80 => Range(cands) = DOMAIN pureIn.bm
        /\ \A p \in 1..Len(pureOut.shown) : pureOut.shown[p].doc \in Range(cands)

\* Of more than 160 chunks, 80 came from each window and none from both.
C22_TwoFullDisjointWindows ==
  /\ purePc = "done"
  /\ Len(pureIn.bm) > 160
  /\ Len(pureOut.candidates) = 160
  /\ TopOf(pureIn.bm, 80) \cap TopOf(pureIn.cos, 80) = {}

\* The least and the greatest of the raw scores of the candidates.
LeastOf(score, cands) == CHOOSE x \in {score[c] : c \in cands} : \A c \in cands : x <= score[c]
GreatestOf(score, cands) == CHOOSE x \in {score[c] : c \in cands} : \A c \in cands : x >= score[c]

\* norm is score normalised over cands: within [0, 1], 0 at the least raw
\* score, 1 at the greatest, 0 everywhere when they are the same.
NormalisedOver(norm, score, cands) ==
  /\ norm.den > 0
  /\ \A c \in cands :
       /\ 0 <= norm.num[c] /\ norm.num[c] <= norm.den
       /\ score[c] = LeastOf(score, cands) => norm.num[c] = 0
       /\ score[c] = GreatestOf(score, cands) /\ LeastOf(score, cands) # GreatestOf(score, cands)
            => norm.num[c] = norm.den

\* C23: BM25 and cosine are min-max normalised each over the candidates, and
\* combined = 0.45 * normBM25 + 0.55 * normCosine lies in [0, 1] (combined
\* is cb.num / cb.den, the normalised scores nb.num / nb.den, nc.num / nc.den).
C23_NormalisedOverCandidates ==
  purePc = "done" =>
    LET cands == Range(pureOut.candidates)
        nb == pureOut.normBm25
        nc == pureOut.normCos
        cb == pureOut.combined
    IN  /\ NormalisedOver(nb, pureIn.bm, cands)
        /\ NormalisedOver(nc, pureIn.cos, cands)
        /\ cb.den = 100 * nb.den * nc.den
        /\ \A c \in cands :
             /\ cb.num[c] = 45 * nb.num[c] * nc.den + 55 * nc.num[c] * nb.den
             /\ 0 <= cb.num[c] /\ cb.num[c] <= cb.den

\* A chunk outside the candidates has a BM25 below that of every candidate,
\* and the candidate of the least BM25 is normalised to 0, another to 1.
C23_LeastCandidateAboveOutsider ==
  /\ purePc = "done"
  /\ \E i \in DOMAIN pureIn.bm \ Range(pureOut.candidates) :
       pureIn.bm[i] < LeastOf(pureIn.bm, Range(pureOut.candidates))
  /\ \E c \in Range(pureOut.candidates) : pureOut.normBm25.num[c] = 0
  /\ \E c \in Range(pureOut.candidates) : pureOut.normBm25.num[c] = pureOut.normBm25.den
  /\ pureOut.normBm25.den > 1

====
